---------------------------- MODULE Spec2Model ----------------------------
(***************************************************************************)
(* Molecular Analytics Suite: the analysis tools (agents/toolkit.py), the  *)
(* chemistry and prediction back ends (services/) and the request handlers *)
(* (routes/molecules.py), as a state machine.  One action per tool call or *)
(* request, taken when the process is idle; the state then holds the call, *)
(* its inputs, what the outside world answered, the ordered log of the     *)
(* collaborators it invoked and its result, until the result is delivered  *)
(* and the request's data are discarded.                                   *)
(*                                                                         *)
(* Python values are sequences of tokens.  A str is the sequence of its    *)
(* pieces ("" is <<>>); a value of another type starts with a marker token *)
(* ("<None>", "<int>", "<float>", "<bool>", "<list>", "<dict>").  A Python *)
(* dict is a function from its keys to such values.                        *)
(***************************************************************************)
EXTENDS Integers, Sequences, FiniteSets, TLC

VARIABLES
    op,         \* the tool or handler that ran, "idle" between calls
    req,        \* its arguments
    env,        \* what the outside world answered during the call
    calls,      \* the collaborators the call invoked, in order
    ret,        \* the call's outcome
    locals,     \* a handler's except-clause variables
    now,        \* the clock datetime.now() reads
    ADMETModel, \* the admet_ai package could be imported (ADMETModel is not None)
    ADMETClient_model,  \* ADMETClient._model is not None
    constructed, \* how many ADMETModel() have been constructed
    passed      \* the dict objects passed to the call, as the call left them

vars == <<op, req, env, calls, ret, locals, now, ADMETModel, ADMETClient_model,
          constructed, passed>>

\* How far the clock read by datetime.now() runs.
MaxClock == 2

\* How many constructions of ADMETModel are counted.
MaxBuilt == 2

---------------------------------------------------------------------------
(* Python values *)

S(x) == <<x>>

NONE == <<"<None>">>
INT(x) == <<"<int>", x>>
FLOAT(x) == <<"<float>", x>>
BOOL(b) == <<"<bool>", IF b THEN "True" ELSE "False">>
LIST(items) == <<"<list>">> \o items
DICT(keys) == <<"<dict>">> \o keys

Markers == {"<None>", "<int>", "<float>", "<bool>", "<list>", "<dict>"}

\* isinstance(v, str)
IsStr(v) == v = <<>> \/ Head(v) \notin Markers

\* bool(v)
Truthy(v) ==
    IF v = <<>> THEN FALSE
    ELSE IF Head(v) = "<None>" THEN FALSE
    ELSE IF Head(v) \in {"<list>", "<dict>"} THEN Len(v) > 1
    ELSE IF Head(v) \in {"<int>", "<float>"} THEN v[2] \notin {"0", "0.0"}
    ELSE IF Head(v) = "<bool>" THEN v[2] = "True"
    ELSE TRUE

\* str(v), as an f-string interpolates it
PyStr(v) ==
    IF IsStr(v) THEN v
    ELSE IF Head(v) = "<None>" THEN S("None")
    ELSE IF Head(v) \in {"<int>", "<float>", "<bool>"} THEN S(v[2])
    ELSE v

\* needle in haystack, for str
Contains(haystack, needle) ==
    \E i \in 0..(Len(haystack) - Len(needle)) :
        \A j \in 1..Len(needle) : haystack[i + j] = needle[j]

RECURSIVE LStrip(_)
LStrip(v) == IF v # <<>> /\ Head(v) = " " THEN LStrip(Tail(v)) ELSE v

RECURSIVE RStrip(_)
RStrip(v) ==
    IF v # <<>> /\ v[Len(v)] = " " THEN RStrip(SubSeq(v, 1, Len(v) - 1)) ELSE v

\* str.strip()
Strip(v) == RStrip(LStrip(v))

\* str.upper() on the force field names the model uses
UpperTok(t) ==
    CASE t = "uff" -> "UFF"
      [] t = "mmff" -> "MMFF"
      [] t = "xyz" -> "XYZ"
      [] OTHER -> t

Upper(v) == [i \in 1..Len(v) |-> UpperTok(v[i])]

\* {} and dict access
EmptyDict == [k \in {} |-> <<>>]

Has(d, k) == k \in DOMAIN d

\* d.get(k, default)
Get(d, k, default) == IF k \in DOMAIN d THEN d[k] ELSE default

\* d.get(k): the default is None
GetN(d, k) == Get(d, k, NONE)

\* A call's outcome: a returned value, or a raised exception with its str().
Return(v) == [raised |-> FALSE, val |-> v]
Raise(msg) == [raised |-> TRUE, val |-> msg]

\* The same, with the ordered log of the collaborators the call invoked.
Out(r, log) == [raised |-> r.raised, val |-> r.val, calls |-> log]

---------------------------------------------------------------------------
(* services/rdkit_utils.py: the chemistry back end.  RDKit itself is a     *)
(* table over the SMILES strings of the model.                             *)

\* Chem.MolFromSmiles(smiles) is not None
MolFromSmilesOk(smiles) == smiles \in {S("CCO"), S("OCC")}

\* Chem.MolToSmiles(mol): the canonical form
MolToSmiles(smiles) == S("CCO")

sanitize_smiles(smiles) ==
    IF ~Truthy(smiles) \/ ~Truthy(Strip(smiles))
    THEN Raise(S("Empty SMILES string provided"))
    ELSE IF ~MolFromSmilesOk(Strip(smiles))
    THEN Raise(S("Invalid SMILES: ") \o smiles)
    ELSE Return(MolToSmiles(Strip(smiles)))

mol_summary(smiles) ==
    IF ~MolFromSmilesOk(smiles)
    THEN Raise(S("Invalid SMILES: ") \o smiles)
    ELSE Return([formula |-> S("C2H6O"),
                 weight |-> FLOAT("46.07"),
                 inchi |-> S("InChI=1S/C2H6O"),
                 inchikey |-> S("LFQSCWFLJHTTHZ"),
                 descriptors |-> DICT(<<"heavy_atom_count", "logp", "hbd">>)])

\* The 3D block MolToPDBBlock writes after an optimisation with `used`.
PdbBlock(used) == <<"HETATM", used, "END">>

\* e.embedOk: EmbedMolecule returned 0; e.mmffParams: MMFFHasAllMoleculeParams
\* (MolFromSmiles("") is an empty molecule, which EmbedMolecule cannot embed)
embed_conformer(smiles, forcefield, e) ==
    IF smiles # <<>> /\ ~MolFromSmilesOk(smiles)
    THEN Raise(S("Invalid SMILES: ") \o smiles)
    ELSE IF smiles = <<>> \/ ~e.embedOk
    THEN Raise(S("Failed to generate 3D conformer"))
    ELSE IF Upper(forcefield) = S("MMFF")
    THEN IF e.mmffParams THEN Return(PdbBlock("MMFF")) ELSE Return(PdbBlock("UFF"))
    ELSE Return(PdbBlock("UFF"))

---------------------------------------------------------------------------
(* services/admet_ai_client.py and the admet_ai package *)

\* What ADMETModel.predict answers: property names (values are opaque).
ModelPredictions == {<<>>, <<"HIA">>, <<"solubility", "HIA", "toxicity">>}

\* ADMETClient.predict when the admet_ai import failed at module load
ClientStub == LIST(<<"HIA", "hERG">>)

\* ADMETClient.load: client is whether ADMETClient._model is set.
\* Answers the new value of _model and how many ADMETModel() it constructed.
ADMETClient_load(installed, client) ==
    IF installed /\ ~client
    THEN [client |-> TRUE, built |-> 1]
    ELSE [client |-> client, built |-> 0]

\* e.predictOk: model.predict returned; e.predicted: what it returned
ADMETClient_predict(smiles, installed, client, e) ==
    IF ~installed
    THEN [out |-> Out(Return(ClientStub), <<>>), client |-> client, built |-> 0]
    ELSE LET l == ADMETClient_load(installed, client)
             log == (IF l.built = 1 THEN <<"ADMETModel()">> ELSE <<>>)
                        \o <<"model.predict">>
         IN  [out |-> IF e.predictOk
                      THEN Out(Return(LIST(e.predicted)), log)
                      ELSE Out(Raise(S("predict failed")), log),
              client |-> l.client, built |-> l.built]

---------------------------------------------------------------------------
(* agents/toolkit.py: the tools *)

InvalidInput == S("Invalid input: SMILES must be a non-empty string")

\* rdkit_sanitize, lines 17-32: the body of the try
rdkit_sanitize_try(smiles) ==
    IF ~Truthy(smiles) \/ ~IsStr(smiles)
    THEN Out(Return([error |-> InvalidInput]), <<>>)
    ELSE LET sanitized == sanitize_smiles(smiles)
         IN  IF sanitized.raised
             THEN Out(sanitized, <<"RDKitUtils.sanitize_smiles">>)
             ELSE LET meta == mol_summary(sanitized.val)
                      log == <<"RDKitUtils.sanitize_smiles", "RDKitUtils.mol_summary">>
                  IN  IF meta.raised
                      THEN Out(meta, log)
                      ELSE Out(Return([smiles |-> sanitized.val,
                                       formula |-> meta.val.formula,
                                       weight |-> meta.val.weight,
                                       inchi |-> meta.val.inchi,
                                       inchikey |-> meta.val.inchikey,
                                       descriptors |-> meta.val.descriptors,
                                       status |-> S("success")]), log)

\* rdkit_sanitize without its except clause: the exception escapes.
rdkit_sanitize_no_except(smiles) == rdkit_sanitize_try(smiles)

\* rdkit_sanitize, with its except clause (lines 33-34)
rdkit_sanitize(smiles) ==
    LET r == rdkit_sanitize_try(smiles)
    IN  IF r.raised
        THEN Out(Return([error |-> S("Failed to process SMILES '") \o PyStr(smiles)
                                     \o S("': ") \o r.val]), r.calls)
        ELSE r

valid_forcefields == {S("UFF"), S("MMFF")}

\* pdb_block.count("HETATM")
CountHetatm(pdb) == Cardinality({i \in 1..Len(pdb) : pdb[i] = "HETATM"})

\* rdkit_conformer, lines 49-70: the body of the try
rdkit_conformer_try(smiles, forcefield, e) ==
    IF ~Truthy(smiles) \/ ~IsStr(smiles)
    THEN Out(Return([error |-> InvalidInput]), <<>>)
    ELSE IF ~IsStr(forcefield)
    THEN Out(Raise(S("'NoneType' object has no attribute 'upper'")), <<>>)
    ELSE LET forcefield_upper == Upper(forcefield)
         IN  IF forcefield_upper \notin valid_forcefields
             THEN Out(Return([error |-> S("Invalid force field '") \o forcefield
                                  \o S("'. Must be one of: ['UFF', 'MMFF']")]), <<>>)
             ELSE LET pdb == embed_conformer(smiles, forcefield_upper, e)
                      log == <<"RDKitUtils.embed_conformer">>
                  IN  IF pdb.raised
                      THEN Out(pdb, log)
                      ELSE Out(Return(
                             [pdb_block |-> pdb.val,
                              status |-> S("success"),
                              forcefield_used |-> forcefield_upper,
                              atom_count |-> INT(ToString(CountHetatm(pdb.val))),
                              has_3d_coords |-> BOOL(Contains(pdb.val, S("HETATM"))
                                                     /\ Contains(pdb.val, S("END")))]),
                             log)

\* rdkit_conformer, with its except clause (lines 71-72)
rdkit_conformer(smiles, forcefield, e) ==
    LET r == rdkit_conformer_try(smiles, forcefield, e)
    IN  IF r.raised
        THEN Out(Return([error |-> S("Failed to generate conformer: ") \o r.val,
                         status |-> S("failed")]), r.calls)
        ELSE r

property_mapping ==
    {"solubility", "permeability", "bioavailability", "clearance", "half_life",
     "toxicity", "herg_inhibition", "cyp3a4_inhibition"}

\* lines 112-120: the predictions whose name property_mapping knows, in order
RECURSIVE formatted_predictions(_)
formatted_predictions(predictions) ==
    IF predictions = <<>> THEN <<>>
    ELSE (IF Head(predictions) \in property_mapping
          THEN <<Head(predictions)>> ELSE <<>>)
         \o formatted_predictions(Tail(predictions))

\* lines 132-141: the stub predictions
StubPredictions ==
    <<"solubility", "permeability", "bioavailability", "clearance", "half_life",
      "toxicity", "herg_inhibition", "cyp3a4_inhibition">>

\* admet_predict_try with `if not smiles:` alone as its input check.
admet_predict_try_no_type_check(smiles, installed, e) ==
    IF ~Truthy(smiles)
    THEN Out(Return([error |-> InvalidInput]), <<>>)
    ELSE IF ~installed
    THEN Out(Return([predictions |-> LIST(StubPredictions),
                     status |-> S("success"),
                     model_info |-> S("ADMET stub predictions (admet-ai not available)"),
                     smiles |-> smiles]), <<>>)
    ELSE LET log == <<"ADMETModel()", "model.predict">>
         IN  IF ~e.predictOk
             THEN Out(Raise(S("predict failed")), log)
             ELSE Out(Return([predictions |-> LIST(formatted_predictions(e.predicted)),
                              status |-> S("success"),
                              model_info |-> S("ADMET-AI prediction model"),
                              smiles |-> smiles]), log)

\* admet_predict, lines 86-145: the body of the outer try
\* (installed: `from admet_ai import ADMETModel` does not raise ImportError)
admet_predict_try(smiles, installed, e) ==
    IF ~Truthy(smiles) \/ ~IsStr(smiles)
    THEN Out(Return([error |-> InvalidInput]), <<>>)
    ELSE IF ~installed
    THEN Out(Return([predictions |-> LIST(StubPredictions),
                     status |-> S("success"),
                     model_info |-> S("ADMET stub predictions (admet-ai not available)"),
                     smiles |-> smiles]), <<>>)
    ELSE LET log == <<"ADMETModel()", "model.predict">>
         IN  IF ~e.predictOk
             THEN Out(Raise(S("predict failed")), log)
             ELSE Out(Return([predictions |-> LIST(formatted_predictions(e.predicted)),
                              status |-> S("success"),
                              model_info |-> S("ADMET-AI prediction model"),
                              smiles |-> smiles]), log)

\* admet_predict, with its outer except clause (lines 147-148)
admet_predict(smiles, installed, e) ==
    LET r == admet_predict_try(smiles, installed, e)
    IN  IF r.raised
        THEN Out(Return([error |-> S("Failed to predict ADMET properties: ") \o r.val,
                         status |-> S("failed")]), r.calls)
        ELSE r

---------------------------------------------------------------------------
(* agents/toolkit.py: render_payload *)

\* An argument that should be a dict: the dict, or None.
Obj(d) == [none |-> FALSE, d |-> d]
NoneObj == [none |-> TRUE, d |-> EmptyDict]

\* bool(x) of such an argument: None and {} are falsy
TruthyObj(x) == ~x.none /\ DOMAIN x.d # {}

\* lines 177-190
molecular_properties(molecular_data) ==
    IF TruthyObj(molecular_data) /\ ~Truthy(GetN(molecular_data.d, "error"))
    THEN [formula |-> Get(molecular_data.d, "formula", <<>>),
          molecular_weight |-> Get(molecular_data.d, "weight", INT("0")),
          inchi |-> Get(molecular_data.d, "inchi", <<>>),
          inchikey |-> Get(molecular_data.d, "inchikey", <<>>),
          descriptors |-> Get(molecular_data.d, "descriptors", DICT(<<>>)),
          status |-> S("success")]
    ELSE [status |-> S("failed"),
          error |-> Get(molecular_data.d, "error",
                        S("Unknown error in molecular analysis"))]

\* lines 193-205
structure_3d(conformer_data) ==
    IF TruthyObj(conformer_data) /\ Truthy(GetN(conformer_data.d, "pdb_block"))
       /\ ~Truthy(GetN(conformer_data.d, "error"))
    THEN [pdb_block |-> Get(conformer_data.d, "pdb_block", <<>>),
          forcefield |-> Get(conformer_data.d, "forcefield_used", S("UFF")),
          atom_count |-> Get(conformer_data.d, "atom_count", INT("0")),
          has_coordinates |-> Get(conformer_data.d, "has_3d_coords", BOOL(FALSE)),
          status |-> S("success")]
    ELSE [status |-> S("failed"),
          error |-> Get(conformer_data.d, "error",
                        S("Unknown error in 3D structure generation"))]

\* lines 208-218
admet_predictions(admet_data) ==
    IF TruthyObj(admet_data) /\ Truthy(GetN(admet_data.d, "predictions"))
       /\ ~Truthy(GetN(admet_data.d, "error"))
    THEN [predictions |-> Get(admet_data.d, "predictions", LIST(<<>>)),
          model_info |-> Get(admet_data.d, "model_info", S("Unknown model")),
          status |-> S("success")]
    ELSE [status |-> S("failed"),
          error |-> Get(admet_data.d, "error",
                        S("Unknown error in ADMET predictions"))]

\* overall_status with "success" kept for three successes.
overall_status_all(successful) ==
    IF successful >= 3 THEN S("success")
    ELSE IF successful >= 1 THEN S("partial")
    ELSE S("failed")

\* line 246
overall_status(successful) ==
    IF successful >= 2 THEN S("success")
    ELSE IF successful >= 1 THEN S("partial")
    ELSE S("failed")

\* success_rate dividing by the number of successes and failures seen so far.
success_rate_running(successful) == <<successful, IF successful = 0 THEN 1 ELSE successful>>

\* line 243: len(successful_analyses) / 3, as the fraction <<numerator, denominator>>
success_rate(successful) == <<successful, 3>>

\* lines 221-247: the summary of the three sections
summary(mp, s3, ap) ==
    LET Names(want) ==
            (IF (mp.status = S("success")) = want
             THEN <<"molecular_properties">> ELSE <<>>)
            \o (IF (s3.status = S("success")) = want
                THEN <<"structure_3d">> ELSE <<>>)
            \o (IF (ap.status = S("success")) = want
                THEN <<"admet_predictions">> ELSE <<>>)
        successful_analyses == Names(TRUE)
        failed_analyses == Names(FALSE)
    IN  [total_analyses |-> 3,
         successful_analyses |-> Len(successful_analyses),
         failed_analyses |-> Len(failed_analyses),
         success_rate |-> success_rate(Len(successful_analyses)),
         successful_components |-> successful_analyses,
         failed_components |-> failed_analyses,
         overall_status |-> overall_status(Len(successful_analyses))]

\* line 166: f"analysis_{hash(str(smiles))}"[:16]
analysis_id(smiles) == <<"analysis_", "hash">> \o PyStr(smiles)

\* render_payload_try stamping the molecular section with the time of the call.
render_payload_try_stamped(molecular_data, conformer_data, admet_data, t) ==
    IF molecular_data.none \/ conformer_data.none \/ admet_data.none
    THEN Raise(S("'NoneType' object has no attribute 'get'"))
    ELSE LET mp == molecular_properties(molecular_data)
             s3 == structure_3d(conformer_data)
             ap == admet_predictions(admet_data)
         IN  Return([analysis_id |-> analysis_id(Get(molecular_data.d, "smiles", <<>>)),
                     timestamp |-> t,
                     status |-> S("success"),
                     smiles |-> Get(molecular_data.d, "smiles", <<>>),
                     molecular_properties |->
                         [k \in DOMAIN mp \cup {"generated_at"} |->
                             IF k = "generated_at" THEN t ELSE mp[k]],
                     structure_3d |-> s3,
                     admet_predictions |-> ap,
                     summary |-> summary(mp, s3, ap)])

\* render_payload, lines 164-249: the body of the try.  x.get(...) on an
\* argument that is None raises AttributeError.
render_payload_try(molecular_data, conformer_data, admet_data, t) ==
    IF molecular_data.none \/ conformer_data.none \/ admet_data.none
    THEN Raise(S("'NoneType' object has no attribute 'get'"))
    ELSE LET mp == molecular_properties(molecular_data)
             s3 == structure_3d(conformer_data)
             ap == admet_predictions(admet_data)
         IN  Return([analysis_id |-> analysis_id(Get(molecular_data.d, "smiles", <<>>)),
                     timestamp |-> t,
                     status |-> S("success"),
                     smiles |-> Get(molecular_data.d, "smiles", <<>>),
                     molecular_properties |-> mp,
                     structure_3d |-> s3,
                     admet_predictions |-> ap,
                     summary |-> summary(mp, s3, ap)])

\* render_payload without its except clause: the exception escapes.
render_payload_no_except(molecular_data, conformer_data, admet_data, t) ==
    render_payload_try(molecular_data, conformer_data, admet_data, t)

\* render_payload, with its except clause (lines 251-256)
render_payload(molecular_data, conformer_data, admet_data, t) ==
    LET r == render_payload_try(molecular_data, conformer_data, admet_data, t)
    IN  IF r.raised
        THEN Return([status |-> S("failed"),
                     error |-> S("Failed to render payload: ") \o r.val,
                     timestamp |-> t])
        ELSE r

\* render_payload_args popping the error key off the conformer result.
render_payload_args_pop(molecular_data, conformer_data, admet_data) ==
    <<molecular_data,
      [none |-> conformer_data.none,
       d |-> [k \in DOMAIN conformer_data.d \ {"error"} |-> conformer_data.d[k]]],
      admet_data>>

\* The three arguments of render_payload as the call leaves them: lines 164-256
\* only read them (x.get(...)); nothing is assigned to them or through them.
render_payload_args(molecular_data, conformer_data, admet_data) ==
    <<molecular_data, conformer_data, admet_data>>

---------------------------------------------------------------------------
(* routes/molecules.py: the request handlers *)

\* What agent.run gave: an exception, or the object it returned.
Threw(msg) == [raised |-> TRUE, msg |-> msg, obj |-> NoneObj]
Answered(obj) == [raised |-> FALSE, msg |-> <<>>, obj |-> obj]

\* A handler's outcome: the response body, or HTTPException(code, detail).
Response(body) == [raised |-> FALSE, code |-> 200, val |-> body]
HTTPException(code, detail) == [raised |-> TRUE, code |-> code, val |-> detail]

\* The handler's except-clause variables: agent_error and the direct path's error.
NoLocals ==
    [agent_failed |-> FALSE, agent_error |-> <<>>,
     direct_failed |-> FALSE, direct_error |-> <<>>]

\* result = agent.run(...); if "error" in result: raise Exception(result["error"])
\* The exception this raises, if any ("error" in None is a TypeError).
AgentCheck(answer) ==
    IF answer.raised THEN Raise(answer.msg)
    ELSE IF answer.obj.none
    THEN Raise(S("argument of type 'NoneType' is not iterable"))
    ELSE IF Has(answer.obj.d, "error") THEN Raise(PyStr(answer.obj.d["error"]))
    ELSE Return(answer.obj.d)

MoleculeSummaryKeys ==
    <<"smiles", "formula", "weight", "inchi", "inchikey", "descriptors">>

RECURSIVE FirstMissing(_, _)
FirstMissing(d, keys) ==
    IF keys = <<>> THEN <<>>
    ELSE IF ~Has(d, Head(keys)) THEN S(Head(keys))
    ELSE FirstMissing(d, Tail(keys))

\* lines 44-56: the reasoning path of parse
parse_agent_path(answer) ==
    LET checked == AgentCheck(answer)
    IN  IF checked.raised THEN checked
        ELSE IF FirstMissing(checked.val, MoleculeSummaryKeys) # <<>>
        THEN Raise(S("KeyError: ") \o FirstMissing(checked.val, MoleculeSummaryKeys))
        ELSE IF ~IsStr(checked.val["smiles"]) \/ ~IsStr(checked.val["formula"])
        THEN Raise(S("validation error for MoleculeSummary"))
        ELSE Return([smiles |-> checked.val["smiles"],
                     formula |-> checked.val["formula"],
                     weight |-> checked.val["weight"],
                     inchi |-> checked.val["inchi"],
                     inchikey |-> checked.val["inchikey"],
                     descriptors |-> checked.val["descriptors"]])

\* lines 60-70: the direct path of parse
parse_direct_path(smiles) ==
    LET sanitized == sanitize_smiles(smiles)
    IN  IF sanitized.raised
        THEN Out(sanitized, <<"RDKitUtils.sanitize_smiles">>)
        ELSE LET meta == mol_summary(sanitized.val)
                 log == <<"RDKitUtils.sanitize_smiles", "RDKitUtils.mol_summary">>
             IN  IF meta.raised THEN Out(meta, log)
                 ELSE Out(Return([smiles |-> sanitized.val,
                                  formula |-> meta.val.formula,
                                  weight |-> meta.val.weight,
                                  inchi |-> meta.val.inchi,
                                  inchikey |-> meta.val.inchikey,
                                  descriptors |-> meta.val.descriptors]), log)

\* TwoPaths running the direct path before it looks at the reasoning path's outcome.
TwoPaths_eager(agentCall, agent, direct, what, backend) ==
    IF ~agent.raised
    THEN [ret |-> Response(agent.val), calls |-> <<agentCall>> \o direct.calls,
          locals |-> NoLocals]
    ELSE IF ~direct.raised
    THEN [ret |-> Response(direct.val),
          calls |-> <<agentCall>> \o direct.calls,
          locals |-> [agent_failed |-> TRUE, agent_error |-> agent.val,
                      direct_failed |-> FALSE, direct_error |-> <<>>]]
    ELSE [ret |-> HTTPException(400, what \o S(" (Agent: ") \o agent.val
                                      \o <<", ", backend, ": ">> \o direct.val \o S(")")),
          calls |-> <<agentCall>> \o direct.calls,
          locals |-> [agent_failed |-> TRUE, agent_error |-> agent.val,
                      direct_failed |-> TRUE, direct_error |-> direct.val]]

\* TwoPaths whose message names the direct path's error alone.
TwoPaths_last_error(agentCall, agent, direct, what, backend) ==
    IF ~agent.raised
    THEN [ret |-> Response(agent.val), calls |-> <<agentCall>>, locals |-> NoLocals]
    ELSE IF ~direct.raised
    THEN [ret |-> Response(direct.val),
          calls |-> <<agentCall>> \o direct.calls,
          locals |-> [agent_failed |-> TRUE, agent_error |-> agent.val,
                      direct_failed |-> FALSE, direct_error |-> <<>>]]
    ELSE [ret |-> HTTPException(400, what \o <<" (", backend, ": ">> \o direct.val
                                      \o S(")")),
          calls |-> <<agentCall>> \o direct.calls,
          locals |-> [agent_failed |-> TRUE, agent_error |-> agent.val,
                      direct_failed |-> TRUE, direct_error |-> direct.val]]

\* TwoPaths trying the direct path a second time when it failed.
TwoPaths_retry(agentCall, agent, direct, what, backend) ==
    IF ~agent.raised
    THEN [ret |-> Response(agent.val), calls |-> <<agentCall>>, locals |-> NoLocals]
    ELSE IF ~direct.raised
    THEN [ret |-> Response(direct.val),
          calls |-> <<agentCall>> \o direct.calls,
          locals |-> [agent_failed |-> TRUE, agent_error |-> agent.val,
                      direct_failed |-> FALSE, direct_error |-> <<>>]]
    ELSE [ret |-> HTTPException(400, what \o S(" (Agent: ") \o agent.val
                                      \o <<", ", backend, ": ">> \o direct.val \o S(")")),
          calls |-> <<agentCall>> \o direct.calls \o direct.calls,
          locals |-> [agent_failed |-> TRUE, agent_error |-> agent.val,
                      direct_failed |-> TRUE, direct_error |-> direct.val]]

\* The two-path pattern of parse, conformer and admet: the reasoning path's
\* outcome `agent` (after the call `agentCall`), and on its failure the direct
\* path's outcome `direct`; `what` and `backend` are the words of the message.
TwoPaths(agentCall, agent, direct, what, backend) ==
    IF ~agent.raised
    THEN [ret |-> Response(agent.val), calls |-> <<agentCall>>, locals |-> NoLocals]
    ELSE IF ~direct.raised
    THEN [ret |-> Response(direct.val),
          calls |-> <<agentCall>> \o direct.calls,
          locals |-> [agent_failed |-> TRUE, agent_error |-> agent.val,
                      direct_failed |-> FALSE, direct_error |-> <<>>]]
    ELSE [ret |-> HTTPException(400, what \o S(" (Agent: ") \o agent.val
                                      \o <<", ", backend, ": ">> \o direct.val \o S(")")),
          calls |-> <<agentCall>> \o direct.calls,
          locals |-> [agent_failed |-> TRUE, agent_error |-> agent.val,
                      direct_failed |-> TRUE, direct_error |-> direct.val]]

\* parse, lines 37-72
parse(smiles, answer) ==
    IF ~Truthy(smiles)
    THEN [ret |-> HTTPException(400, S("SMILES required")), calls |-> <<>>,
          locals |-> NoLocals]
    ELSE TwoPaths("parser_agent.run", parse_agent_path(answer),
                  parse_direct_path(smiles), S("Failed to parse SMILES"), "RDKit")

\* lines 79-87: the reasoning path of conformer
conformer_agent_path(answer) ==
    LET checked == AgentCheck(answer)
    IN  IF checked.raised THEN checked
        ELSE IF ~IsStr(Get(checked.val, "pdb_block", <<>>))
                \/ ~IsStr(Get(checked.val, "status", S("ok")))
        THEN Raise(S("validation error for ConformerResponse"))
        ELSE Return([pdb_block |-> Get(checked.val, "pdb_block", <<>>),
                     status |-> Get(checked.val, "status", S("ok"))])

\* lines 91-92: the direct path of conformer
conformer_direct_path(smiles, forcefield, e) ==
    LET pdb == embed_conformer(smiles, forcefield, e)
    IN  IF pdb.raised THEN Out(pdb, <<"RDKitUtils.embed_conformer">>)
        ELSE Out(Return([pdb_block |-> pdb.val, status |-> S("ok")]),
                 <<"RDKitUtils.embed_conformer">>)

\* conformer, lines 75-94
conformer(smiles, forcefield, answer, e) ==
    TwoPaths("conformer_agent.run", conformer_agent_path(answer),
             conformer_direct_path(smiles, forcefield, e),
             S("Failed to generate conformer"), "RDKit")

\* AdmetPrediction(property=pred["property"], value=pred["value"], ...) of every
\* element: the element "<no property>" is a prediction without that key.
PredictionsUsable(predictions) ==
    /\ predictions # <<>> /\ Head(predictions) = "<list>"
    /\ \A i \in 2..Len(predictions) : predictions[i] # "<no property>"

\* lines 101-115: the reasoning path of admet
admet_agent_path(answer) ==
    LET checked == AgentCheck(answer)
    IN  IF checked.raised THEN checked
        ELSE IF ~PredictionsUsable(Get(checked.val, "predictions", LIST(<<>>)))
        THEN Raise(S("KeyError: 'property'"))
        ELSE Return([predictions |-> Get(checked.val, "predictions", LIST(<<>>))])

\* lines 119-121: the direct path of admet.  AdmetPrediction(**p) needs the
\* keys property and value in every record ADMETClient.predict returns.
admet_direct_path(smiles, installed, client, e) ==
    LET p == ADMETClient_predict(smiles, installed, client, e)
        usable == ~installed
                  \/ {"property", "value"} \subseteq
                        {p.out.val[i] : i \in 2..Len(p.out.val)}
    IN  [out |-> IF p.out.raised THEN Out(p.out, <<"ADMETClient.predict">> \o p.out.calls)
                 ELSE IF ~usable
                 THEN Out(Raise(S("validation error for AdmetPrediction")),
                          <<"ADMETClient.predict">> \o p.out.calls)
                 ELSE Out(Return([predictions |-> p.out.val]),
                          <<"ADMETClient.predict">> \o p.out.calls),
         client |-> p.client, built |-> p.built]

\* admet, lines 97-123
admet(smiles, answer, installed, client, e) ==
    LET agent == admet_agent_path(answer)
        direct == admet_direct_path(smiles, installed, client, e)
        r == TwoPaths("admet_agent.run", agent, direct.out,
                      S("Failed to predict ADMET properties"), "ADMET-AI")
    IN  [ret |-> r.ret, calls |-> r.calls, locals |-> r.locals,
         client |-> IF agent.raised THEN direct.client ELSE client,
         built |-> IF agent.raised THEN direct.built ELSE 0]

\* lines 146-164: the report analyze builds itself when the render agent's
\* result is unusable
fallback_report(smiles, molecular_result, conformer_result, admet_result, render_result) ==
    [molecule |->
        IF ~Truthy(GetN(molecular_result, "error")) THEN molecular_result
        ELSE [smiles |-> smiles, formula |-> <<>>, weight |-> FLOAT("0.0"),
              inchi |-> <<>>, inchikey |-> <<>>, descriptors |-> DICT(<<>>),
              error |-> Get(molecular_result, "error", S("Parser failed"))],
     pdb_block |->
        IF ~Truthy(GetN(conformer_result, "error"))
        THEN Get(conformer_result, "pdb_block", <<>>) ELSE <<>>,
     admet |->
        IF ~Truthy(GetN(admet_result, "error"))
        THEN Get(admet_result, "predictions", LIST(<<>>)) ELSE LIST(<<>>),
     analysis_status |->
        [parser |-> IF ~Truthy(GetN(molecular_result, "error"))
                    THEN S("success") ELSE S("failed"),
         conformer |-> IF ~Truthy(GetN(conformer_result, "error"))
                       THEN S("success") ELSE S("failed"),
         admet |-> IF ~Truthy(GetN(admet_result, "error"))
                   THEN S("success") ELSE S("failed"),
         render |-> IF Truthy(GetN(render_result, "error"))
                    THEN S("failed") ELSE S("success")]]

AnalyzeFailed(msg) == HTTPException(400, S("Complete analysis failed: ") \o msg)

\* analyze, lines 126-167.  pa, ca, aa: what the parser, conformer and ADMET
\* agents gave; ra: what the render agent gave for their three results.
analyze(smiles, pa, ca, aa, ra) ==
    IF pa.raised
    THEN [ret |-> AnalyzeFailed(pa.msg), calls |-> <<"parser_agent.run">>]
    ELSE IF ca.raised
    THEN [ret |-> AnalyzeFailed(ca.msg),
          calls |-> <<"parser_agent.run", "conformer_agent.run">>]
    ELSE IF aa.raised
    THEN [ret |-> AnalyzeFailed(aa.msg),
          calls |-> <<"parser_agent.run", "conformer_agent.run", "admet_agent.run">>]
    ELSE LET log == <<"parser_agent.run", "conformer_agent.run", "admet_agent.run",
                      "render_agent.run">>
         IN  IF ra.raised
             THEN [ret |-> AnalyzeFailed(ra.msg), calls |-> log]
             ELSE IF TruthyObj(ra.obj) /\ ~Truthy(GetN(ra.obj.d, "error"))
             THEN [ret |-> Response(ra.obj.d), calls |-> log]
             ELSE IF pa.obj.none \/ ca.obj.none \/ aa.obj.none \/ ra.obj.none
             THEN [ret |-> AnalyzeFailed(S("'NoneType' object has no attribute 'get'")),
                   calls |-> log]
             ELSE [ret |-> Response(fallback_report(smiles, pa.obj.d, ca.obj.d,
                                                    aa.obj.d, ra.obj.d)),
                   calls |-> log]

\* render_analysis, lines 170-180.  The HTTPException raised for an error key
\* is raised inside the try, so the except clause wraps it again; str() of an
\* HTTPException is "<status_code>: <detail>".
render_analysis(answer) ==
    LET Failed(msg) == HTTPException(400, S("Failed to render analysis: ") \o msg)
    IN  [ret |-> IF answer.raised THEN Failed(answer.msg)
                 ELSE IF answer.obj.none
                 THEN Failed(S("argument of type 'NoneType' is not iterable"))
                 ELSE IF Has(answer.obj.d, "error")
                 THEN Failed(S("400: ") \o PyStr(answer.obj.d["error"]))
                 ELSE Response(answer.obj.d),
         calls |-> <<"render_agent.run">>]

---------------------------------------------------------------------------
(* The inputs of the model *)

\* SMILES arguments: valid, valid and not canonical, chemically invalid, empty,
\* blank, None, not a string
ToolSmiles == {S("CCO"), S("OCC"), S("XX"), <<>>, S(" "), NONE, INT("123")}

\* ParseRequest.smiles is Optional[str]; the other requests' smiles is str
ParseSmiles == {S("CCO"), S("OCC"), S("XX"), <<>>, S(" "), NONE}
RouteSmiles == {S("CCO"), S("XX"), <<>>}

ToolForcefields == {S("UFF"), S("mmff"), S("MMFF"), S("XYZ"), NONE}
RouteForcefields == {S("UFF"), S("mmff"), S("XYZ")}

DefaultReq ==
    [smiles |-> <<>>, forcefield |-> S("UFF"), molecular_data |-> NoneObj,
     conformer_data |-> NoneObj, admet_data |-> NoneObj]

NotAsked == Answered(NoneObj)

DefaultEnv ==
    [embedOk |-> TRUE, mmffParams |-> TRUE, predictOk |-> TRUE,
     predicted |-> <<"solubility", "HIA", "toxicity">>,
     parser |-> NotAsked, conformer |-> NotAsked, admet |-> NotAsked,
     render |-> NotAsked]

AgentDown == S("agent unavailable")
AgentSaysInvalid == S("Invalid or empty SMILES string")

\* What the parser agent may give for a SMILES: an exception, the tool's own
\* result, an error object, an error key with an empty value, {}, None.
ParserAnswers(smiles) ==
    <<Threw(AgentDown),
      Answered(Obj(rdkit_sanitize(smiles).val)),
      Answered(Obj([error |-> AgentSaysInvalid])),
      Answered(Obj([error |-> <<>>])),
      Answered(Obj(EmptyDict)),
      Answered(NoneObj)>>

ConformerAnswers(smiles, forcefield, e) ==
    <<Threw(AgentDown),
      Answered(Obj(rdkit_conformer(smiles, forcefield, e).val)),
      Answered(Obj([error |-> AgentSaysInvalid])),
      Answered(Obj([error |-> <<>>, pdb_block |-> PdbBlock("UFF")])),
      Answered(Obj([pdb_block |-> <<>>, status |-> S("success")])),
      Answered(NoneObj)>>

AdmetAnswers(smiles, inst, e) ==
    <<Threw(AgentDown),
      Answered(Obj(admet_predict(smiles, inst, e).val)),
      Answered(Obj([error |-> AgentSaysInvalid])),
      Answered(Obj([error |-> <<>>, predictions |-> LIST(<<"solubility">>)])),
      Answered(Obj([predictions |-> LIST(<<"<no property>">>)])),
      Answered(NoneObj)>>

RenderAnswers(molecular_result, conformer_result, admet_result, t) ==
    <<Threw(AgentDown),
      Answered(Obj(render_payload(molecular_result, conformer_result,
                                  admet_result, t).val)),
      Answered(Obj([error |-> S("could not format the results")])),
      Answered(Obj(EmptyDict)),
      Answered(NoneObj)>>

\* The stage results render_payload may be given.
MolecularResults ==
    <<Obj(rdkit_sanitize(S("CCO")).val),
      Obj(rdkit_sanitize(S("XX")).val),
      Obj([error |-> <<>>]),
      Obj([smiles |-> S("CCO"), error |-> AgentSaysInvalid]),
      Obj(EmptyDict),
      NoneObj>>

ConformerResults ==
    <<Obj(rdkit_conformer(S("CCO"), S("UFF"), DefaultEnv).val),
      Obj(rdkit_conformer(S("XX"), S("UFF"), DefaultEnv).val),
      Obj([error |-> AgentSaysInvalid]),
      Obj([error |-> <<>>, status |-> S("failed")]),
      Obj([pdb_block |-> <<>>, status |-> S("success")]),
      Obj([pdb_block |-> PdbBlock("UFF"), status |-> S("success")]),
      Obj(EmptyDict),
      NoneObj>>

AdmetResults ==
    <<Obj(admet_predict(S("CCO"), FALSE, DefaultEnv).val),
      Obj(admet_predict(S("CCO"), TRUE, [DefaultEnv EXCEPT !.predicted = <<"HIA">>]).val),
      Obj(admet_predict(S("CCO"), TRUE, [DefaultEnv EXCEPT !.predictOk = FALSE]).val),
      Obj([error |-> NONE]),
      Obj(EmptyDict),
      NoneObj>>

---------------------------------------------------------------------------
(* The state machine *)

Idle == [raised |-> FALSE, code |-> 0, val |-> EmptyDict]

\* No dict object was passed to the call.
NoArgs == <<>>

\* A tool's outcome as the state keeps it.
ToolRet(r) == [raised |-> r.raised, code |-> 0, val |-> r.val]

Init ==
    /\ op = "idle"
    /\ req = DefaultReq
    /\ env = DefaultEnv
    /\ calls = <<>>
    /\ ret = Idle
    /\ locals = NoLocals
    /\ passed = NoArgs
    /\ now = 0
    /\ ADMETModel \in BOOLEAN
    /\ ADMETClient_model = FALSE
    /\ constructed = 0

\* Time passes between calls.
Tick ==
    /\ op = "idle"
    /\ now < MaxClock
    /\ now' = now + 1
    /\ UNCHANGED <<op, req, env, calls, ret, locals, ADMETModel, ADMETClient_model,
                   constructed, passed>>

RenderPayload ==
    /\ op = "idle"
    /\ \E i \in 1..Len(MolecularResults), j \in 1..Len(ConformerResults),
          k \in 1..Len(AdmetResults) :
           /\ op' = "render_payload"
           /\ req' = [DefaultReq EXCEPT !.molecular_data = MolecularResults[i],
                                        !.conformer_data = ConformerResults[j],
                                        !.admet_data = AdmetResults[k]]
           /\ env' = DefaultEnv
           /\ calls' = <<>>
           /\ ret' = ToolRet(render_payload(MolecularResults[i], ConformerResults[j],
                                            AdmetResults[k], now))
           /\ locals' = NoLocals
           /\ passed' = render_payload_args(MolecularResults[i], ConformerResults[j],
                                            AdmetResults[k])
           /\ UNCHANGED <<now, ADMETModel, ADMETClient_model, constructed>>

RdkitSanitize ==
    /\ op = "idle"
    /\ \E smiles \in ToolSmiles :
           LET r == rdkit_sanitize(smiles)
           IN  /\ op' = "rdkit_sanitize"
               /\ req' = [DefaultReq EXCEPT !.smiles = smiles]
               /\ env' = DefaultEnv
               /\ calls' = r.calls
               /\ ret' = ToolRet(r)
               /\ locals' = NoLocals
               /\ passed' = NoArgs
               /\ UNCHANGED <<now, ADMETModel, ADMETClient_model, constructed>>

RdkitConformer ==
    /\ op = "idle"
    /\ \E smiles \in ToolSmiles, forcefield \in ToolForcefields,
          embedOk \in BOOLEAN, mmffParams \in BOOLEAN :
           LET e == [DefaultEnv EXCEPT !.embedOk = embedOk, !.mmffParams = mmffParams]
               r == rdkit_conformer(smiles, forcefield, e)
           IN  /\ op' = "rdkit_conformer"
               /\ req' = [DefaultReq EXCEPT !.smiles = smiles, !.forcefield = forcefield]
               /\ env' = e
               /\ calls' = r.calls
               /\ ret' = ToolRet(r)
               /\ locals' = NoLocals
               /\ passed' = NoArgs
               /\ UNCHANGED <<now, ADMETModel, ADMETClient_model, constructed>>

\* How many "ADMETModel()" a call log holds.
Constructions(log) == Cardinality({i \in 1..Len(log) : log[i] = "ADMETModel()"})

AdmetPredict ==
    /\ op = "idle"
    /\ \E smiles \in ToolSmiles, predictOk \in BOOLEAN, predicted \in ModelPredictions :
           LET e == [DefaultEnv EXCEPT !.predictOk = predictOk, !.predicted = predicted]
               r == admet_predict(smiles, ADMETModel, e)
           IN  /\ constructed + Constructions(r.calls) <= MaxBuilt
               /\ op' = "admet_predict"
               /\ req' = [DefaultReq EXCEPT !.smiles = smiles]
               /\ env' = e
               /\ calls' = r.calls
               /\ ret' = ToolRet(r)
               /\ locals' = NoLocals
               /\ passed' = NoArgs
               /\ constructed' = constructed + Constructions(r.calls)
               /\ UNCHANGED <<now, ADMETModel, ADMETClient_model>>

Parse ==
    /\ op = "idle"
    /\ \E smiles \in ParseSmiles :
       \E i \in 1..Len(ParserAnswers(smiles)) :
           LET answer == ParserAnswers(smiles)[i]
               r == parse(smiles, answer)
           IN  /\ op' = "parse"
               /\ req' = [DefaultReq EXCEPT !.smiles = smiles]
               /\ env' = [DefaultEnv EXCEPT !.parser = answer]
               /\ calls' = r.calls
               /\ ret' = r.ret
               /\ locals' = r.locals
               /\ passed' = NoArgs
               /\ UNCHANGED <<now, ADMETModel, ADMETClient_model, constructed>>

Conformer ==
    /\ op = "idle"
    /\ \E smiles \in RouteSmiles, forcefield \in RouteForcefields,
          embedOk \in BOOLEAN, mmffParams \in BOOLEAN :
           LET e == [DefaultEnv EXCEPT !.embedOk = embedOk, !.mmffParams = mmffParams]
           IN  \E i \in 1..Len(ConformerAnswers(smiles, forcefield, e)) :
               LET answer == ConformerAnswers(smiles, forcefield, e)[i]
                   r == conformer(smiles, forcefield, answer, e)
               IN  /\ op' = "conformer"
                   /\ req' = [DefaultReq EXCEPT !.smiles = smiles,
                                                !.forcefield = forcefield]
                   /\ env' = [e EXCEPT !.conformer = answer]
                   /\ calls' = r.calls
                   /\ ret' = r.ret
                   /\ locals' = r.locals
                   /\ passed' = NoArgs
                   /\ UNCHANGED <<now, ADMETModel, ADMETClient_model, constructed>>

Admet ==
    /\ op = "idle"
    /\ \E smiles \in RouteSmiles, predictOk \in BOOLEAN, predicted \in ModelPredictions :
           LET e == [DefaultEnv EXCEPT !.predictOk = predictOk, !.predicted = predicted]
           IN  \E i \in 1..Len(AdmetAnswers(smiles, ADMETModel, e)) :
               LET answer == AdmetAnswers(smiles, ADMETModel, e)[i]
                   r == admet(smiles, answer, ADMETModel, ADMETClient_model, e)
               IN  /\ constructed + r.built <= MaxBuilt
                   /\ op' = "admet"
                   /\ req' = [DefaultReq EXCEPT !.smiles = smiles]
                   /\ env' = [e EXCEPT !.admet = answer]
                   /\ calls' = r.calls
                   /\ ret' = r.ret
                   /\ locals' = r.locals
                   /\ passed' = NoArgs
                   /\ ADMETClient_model' = r.client
                   /\ constructed' = constructed + r.built
                   /\ UNCHANGED <<now, ADMETModel>>

\* The agents of analyze: each raises, relays its tool's result, gives an error
\* object with an empty value, or gives None; the render agent may also give {}.
Analyze ==
    /\ op = "idle"
    /\ \E smiles \in RouteSmiles :
       \E ip, ic, ia \in {1, 2, 4, 6}, ir \in 1..5 :
           LET pa == ParserAnswers(smiles)[ip]
               ca == ConformerAnswers(smiles, S("UFF"), DefaultEnv)[ic]
               aa == AdmetAnswers(smiles, ADMETModel, DefaultEnv)[ia]
               ra == RenderAnswers(pa.obj, ca.obj, aa.obj, now)[ir]
               r == analyze(smiles, pa, ca, aa, ra)
           IN  /\ op' = "analyze"
               /\ req' = [DefaultReq EXCEPT !.smiles = smiles]
               /\ env' = [DefaultEnv EXCEPT !.parser = pa, !.conformer = ca,
                                            !.admet = aa, !.render = ra]
               /\ calls' = r.calls
               /\ ret' = r.ret
               /\ locals' = NoLocals
               /\ passed' = NoArgs
               /\ UNCHANGED <<now, ADMETModel, ADMETClient_model, constructed>>

\* The request body of /render holds three dicts (FastAPI refuses None).
RenderAnalysis ==
    /\ op = "idle"
    /\ \E i \in 1..Len(MolecularResults), j \in 1..Len(ConformerResults),
          k \in 1..Len(AdmetResults) :
           /\ ~MolecularResults[i].none /\ ~ConformerResults[j].none
           /\ ~AdmetResults[k].none
           /\ \E ir \in 1..5 :
                  LET ra == RenderAnswers(MolecularResults[i], ConformerResults[j],
                                          AdmetResults[k], now)[ir]
                      r == render_analysis(ra)
                  IN  /\ op' = "render_analysis"
                      /\ req' = [DefaultReq EXCEPT
                                     !.molecular_data = MolecularResults[i],
                                     !.conformer_data = ConformerResults[j],
                                     !.admet_data = AdmetResults[k]]
                      /\ env' = [DefaultEnv EXCEPT !.render = ra]
                      /\ calls' = r.calls
                      /\ ret' = r.ret
                      /\ locals' = NoLocals
                      /\ passed' = NoArgs
                      /\ UNCHANGED <<now, ADMETModel, ADMETClient_model, constructed>>

\* The result is delivered; nothing of the request is kept.
Respond ==
    /\ op # "idle"
    /\ op' = "idle"
    /\ req' = DefaultReq
    /\ env' = DefaultEnv
    /\ calls' = <<>>
    /\ ret' = Idle
    /\ locals' = NoLocals
    /\ passed' = NoArgs
    /\ UNCHANGED <<now, ADMETModel, ADMETClient_model, constructed>>

Next ==
    \/ RdkitSanitize \/ RdkitConformer \/ AdmetPredict
    \/ RenderPayload
    \/ Parse \/ Conformer \/ Admet
    \/ Analyze
    \/ RenderAnalysis
    \/ Respond
    \/ Tick

Spec == Init /\ [][Next]_vars

---------------------------------------------------------------------------
(* Properties of render_payload *)

Components == {"molecular_properties", "structure_3d", "admet_predictions"}

ReportKeys ==
    {"analysis_id", "timestamp", "status", "smiles", "molecular_properties",
     "structure_3d", "admet_predictions", "summary"}

\* render_payload was called and gave a report (not its error object).
Rendered == op = "render_payload" /\ ~ret.raised /\ "summary" \in DOMAIN ret.val

\* The three arguments of the call are dicts (none of them is None).
DictArguments ==
    ~req.molecular_data.none /\ ~req.conformer_data.none /\ ~req.admet_data.none

FailedSections(report) == {c \in Components : report[c].status # S("success")}

\* C1: the overall status of a report depends only on how many of its three
\* components failed: none or one -> success, two -> partial, three -> failed.
C1_OverallStatusByFailures ==
    Rendered =>
        LET failed == Cardinality(FailedSections(ret.val))
        IN  ret.val.summary.overall_status =
                CASE failed = 0 -> S("success")
                  [] failed = 1 -> S("success")
                  [] failed = 2 -> S("partial")
                  [] failed = 3 -> S("failed")

\* A report with exactly one failed component, whose overall status is success.
C1_Witness ==
    /\ Rendered
    /\ Cardinality(FailedSections(ret.val)) = 1
    /\ ret.val.summary.overall_status = S("success")

Range(seq) == {seq[i] : i \in 1..Len(seq)}

\* C2: in every report the summary counts three analyses, the successful and
\* the failed components partition the three component names, each count is the
\* length of its list of names, and the success rate is successful / 3.
C2_SummaryCounts ==
    Rendered =>
        LET s == ret.val.summary
        IN  /\ s.total_analyses = 3
            /\ s.successful_analyses + s.failed_analyses = 3
            /\ Range(s.successful_components) \cap Range(s.failed_components) = {}
            /\ Range(s.successful_components) \cup Range(s.failed_components)
                   = Components
            /\ s.successful_analyses = Len(s.successful_components)
            /\ s.failed_analyses = Len(s.failed_components)
            /\ Range(s.failed_components) = FailedSections(ret.val)
            /\ s.success_rate = <<s.successful_analyses, 3>>

\* A report with two successful components and one failed one.
C2_Witness ==
    /\ Rendered
    /\ ret.val.summary.successful_analyses = 2
    /\ ret.val.summary.failed_components = <<"structure_3d">>
    /\ ret.val.summary.success_rate = <<2, 3>>

\* C3: render_payload never raises, and for three stage results that are
\* success, failure or empty result objects it returns a complete report.
C3_RenderTotal ==
    op = "render_payload" =>
        /\ ~ret.raised
        /\ DictArguments => DOMAIN ret.val = ReportKeys

\* A complete report rendered from three empty result objects.
C3_Witness ==
    /\ op = "render_payload"
    /\ DOMAIN req.molecular_data.d = {} /\ ~req.molecular_data.none
    /\ DOMAIN req.conformer_data.d = {} /\ ~req.conformer_data.none
    /\ DOMAIN req.admet_data.d = {} /\ ~req.admet_data.none
    /\ DOMAIN ret.val = ReportKeys
    /\ ret.val.summary.failed_analyses = 3

\* The stage result a component section was rendered from.
StageResultOf(c) ==
    CASE c = "molecular_properties" -> req.molecular_data.d
      [] c = "structure_3d" -> req.conformer_data.d
      [] c = "admet_predictions" -> req.admet_data.d

GenericMessage(c) ==
    CASE c = "molecular_properties" -> S("Unknown error in molecular analysis")
      [] c = "structure_3d" -> S("Unknown error in 3D structure generation")
      [] c = "admet_predictions" -> S("Unknown error in ADMET predictions")

\* The stage result carries a failure reason.
HasReason(d) == Has(d, "error") /\ Truthy(d["error"])

\* C4: every failed component section of a report carries a non-empty error
\* reason, the stage result's own when it has one and the generic message of
\* the component otherwise.
C4_FailedSectionHasReason ==
    Rendered =>
        \A c \in FailedSections(ret.val) :
            /\ Truthy(ret.val[c].error)
            /\ ret.val[c].error = IF HasReason(StageResultOf(c))
                                  THEN StageResultOf(c)["error"]
                                  ELSE GenericMessage(c)

---------------------------------------------------------------------------
(* Properties of analyze *)

Stages == {"parser", "conformer", "admet"}

SectionOf(stage) ==
    CASE stage = "parser" -> "molecular_properties"
      [] stage = "conformer" -> "structure_3d"
      [] stage = "admet" -> "admet_predictions"

\* The stage's agent raised, or returned an object that carries a failure reason.
StageFailed(answer) ==
    answer.raised \/ (~answer.obj.none /\ HasReason(answer.obj.d))

\* The response marks the stage failed: in the rendered report's section, with
\* a reason, or in the fallback report's analysis_status.
CarriedAsData(stage) ==
    /\ ~ret.raised
    /\ IF "summary" \in DOMAIN ret.val
       THEN /\ ret.val[SectionOf(stage)].status = S("failed")
            /\ Truthy(ret.val[SectionOf(stage)].error)
       ELSE /\ "analysis_status" \in DOMAIN ret.val
            /\ ret.val.analysis_status[stage] = S("failed")

\* C5: in analyze, whatever the outcome of the Parse, Conformer and ADMET
\* stages, a failed stage reaches the caller as data of the report (the
\* component marked failed, with a reason), never as an error response.
C5_StageFailureIsData ==
    (/\ op = "analyze"
     /\ Truthy(req.smiles)
     /\ ~env.render.raised /\ ~env.render.obj.none) =>
        \A stage \in Stages : StageFailed(env[stage]) => CarriedAsData(stage)

\* C6: analyze rejects an empty SMILES with an error, before any of the
\* parser, conformer, ADMET and render agents is invoked.
C6_EmptySmilesRejected ==
    (op = "analyze" /\ ~Truthy(req.smiles)) => (ret.raised /\ calls = <<>>)

---------------------------------------------------------------------------
(* Properties of the tools *)

Tools == {"rdkit_sanitize", "rdkit_conformer", "admet_predict"}

BackendCalls ==
    {"RDKitUtils.sanitize_smiles", "RDKitUtils.mol_summary",
     "RDKitUtils.embed_conformer", "ADMETModel()", "model.predict",
     "ADMETClient.predict"}

\* The SMILES is empty, None or not a str.
NoSmiles(smiles) == ~Truthy(smiles) \/ ~IsStr(smiles)

\* The tool answered the fixed input error and nothing else.
RejectedInput ==
    ~ret.raised /\ DOMAIN ret.val = {"error"} /\ ret.val.error = InvalidInput

\* C7: each of the three tools rejects an empty, None or non-str SMILES (and
\* no other) with the same fixed error object, without a call to the
\* chemistry back end or the prediction model.
C7_SameInputCheck ==
    op \in Tools =>
        /\ NoSmiles(req.smiles) <=> RejectedInput
        /\ NoSmiles(req.smiles) => Range(calls) \cap BackendCalls = {}

\* admet_predict rejected a SMILES that is not a str.
C7_Witness ==
    op = "admet_predict" /\ req.smiles = INT("123") /\ RejectedInput /\ calls = <<>>

\* C8: no tool raises; each returns either a success object (status success,
\* no error key) or a failure object whose error key holds a non-empty reason.
C8_ToolResultShape ==
    op \in Tools =>
        /\ ~ret.raised
        /\ IF Has(ret.val, "error")
           THEN IsStr(ret.val.error) /\ ret.val.error # <<>>
           ELSE Has(ret.val, "status") /\ ret.val.status = S("success")
        /\ Has(ret.val, "error") => ~(Has(ret.val, "status")
                                      /\ ret.val.status = S("success"))

\* rdkit_sanitize turned the back end's exception into a failure object.
C8_Witness ==
    /\ op = "rdkit_sanitize" /\ req.smiles = S("XX")
    /\ calls = <<"RDKitUtils.sanitize_smiles">>
    /\ ~ret.raised
    /\ Contains(ret.val.error, S("Invalid SMILES: "))

---------------------------------------------------------------------------
(* Properties of the parse, conformer and admet handlers *)

Routes == {"parse", "conformer", "admet"}

AgentCall ==
    CASE op = "parse" -> "parser_agent.run"
      [] op = "conformer" -> "conformer_agent.run"
      [] op = "admet" -> "admet_agent.run"

\* The outcome of the handler's reasoning path for what its agent gave.
ReasoningPath ==
    CASE op = "parse" -> parse_agent_path(env.parser)
      [] op = "conformer" -> conformer_agent_path(env.conformer)
      [] op = "admet" -> admet_agent_path(env.admet)

\* The back end the handler's direct path calls.
DirectCall ==
    CASE op = "parse" -> "RDKitUtils.sanitize_smiles"
      [] op = "conformer" -> "RDKitUtils.embed_conformer"
      [] op = "admet" -> "ADMETClient.predict"

\* The outcome of the handler's direct path for the request's own input (what
\* it answers does not depend on ADMETClient._model being set already).
DirectPath ==
    CASE op = "parse" -> parse_direct_path(req.smiles)
      [] op = "conformer" -> conformer_direct_path(req.smiles, req.forcefield, env)
      [] op = "admet" -> admet_direct_path(req.smiles, ADMETModel, FALSE, env).out

\* The handler went past its input check and invoked a collaborator.
Attempted == op \in Routes /\ calls # <<>>

\* C9: a handler invokes its agent first; it calls the direct back end exactly
\* when the reasoning path failed, with the request's own input; when the
\* reasoning path succeeded it returns that result and calls no back end.
C9_AgentThenDirect ==
    Attempted =>
        /\ Head(calls) = AgentCall
        /\ ReasoningPath.raised <=> Range(calls) \cap BackendCalls # {}
        /\ ~ReasoningPath.raised =>
               /\ calls = <<AgentCall>>
               /\ ret = Response(ReasoningPath.val)
        /\ ReasoningPath.raised =>
               /\ Len(calls) >= 2 /\ calls[2] = DirectCall
               /\ AgentCall \notin Range(Tail(calls))
               /\ ~DirectPath.raised => ret = Response(DirectPath.val)
               /\ DirectPath.raised => ret.raised

\* conformer: the agent gave an error object, the direct path answered.
C9_Witness ==
    /\ op = "conformer" /\ req.smiles = S("CCO")
    /\ ~env.conformer.raised /\ ~env.conformer.obj.none
    /\ Has(env.conformer.obj.d, "error")
    /\ calls = <<"conformer_agent.run", "RDKitUtils.embed_conformer">>
    /\ ret = Response([pdb_block |-> PdbBlock("UFF"), status |-> S("ok")])

\* C10: when both paths of a handler fail, the error message holds the
\* reasoning path's cause and the direct path's cause.
C10_BothCausesNamed ==
    (Attempted /\ ReasoningPath.raised /\ DirectPath.raised) =>
        /\ ret.raised
        /\ Contains(ret.val, ReasoningPath.val)
        /\ Contains(ret.val, DirectPath.val)
        /\ locals.agent_error = ReasoningPath.val
        /\ locals.direct_error = DirectPath.val

\* parse: the agent was down and RDKit refused the SMILES.
C10_Witness ==
    /\ op = "parse" /\ req.smiles = S("XX")
    /\ env.parser.raised
    /\ ret.raised /\ ret.code = 400
    /\ Contains(ret.val, AgentDown)
    /\ Contains(ret.val, S("Invalid SMILES: ") \o S("XX"))

---------------------------------------------------------------------------
(* Properties of the Conformer and ADMET stages *)

\* The force field is a str that upper-cases to neither UFF nor MMFF.
UnknownForcefield(forcefield) ==
    IsStr(forcefield) /\ Upper(forcefield) \notin valid_forcefields

\* The failure reason says the force field is invalid.
InvalidForcefieldReason(msg) ==
    \E i \in 1..Len(msg) : msg[i] = "Invalid force field '"

EmbedCalled == "RDKitUtils.embed_conformer" \in Range(calls)

\* C11: on both paths of the Conformer stage (the rdkit_conformer tool, and the
\* direct path the /conformer handler takes when its agent failed) a force
\* field that upper-cases to neither UFF nor MMFF gives a failure whose reason
\* says "Invalid force field", and embed_conformer is not called for it.
C11_UnknownForcefieldRejected ==
    /\ (op = "rdkit_conformer" /\ ~NoSmiles(req.smiles)
        /\ UnknownForcefield(req.forcefield)) =>
           /\ ~ret.raised /\ Has(ret.val, "error")
           /\ InvalidForcefieldReason(ret.val.error)
           /\ ~EmbedCalled
    /\ (op = "conformer" /\ UnknownForcefield(req.forcefield)
        /\ ReasoningPath.raised) =>
           /\ ret.raised /\ InvalidForcefieldReason(ret.val)
           /\ ~EmbedCalled

StubModelInfo == S("ADMET stub predictions (admet-ai not available)")

\* C12: when the admet_ai package is absent, the ADMET stage succeeds on both
\* paths (the admet_predict tool, and the direct path the /admet handler takes
\* when its agent failed) with the same eight stub predictions; the tool names
\* them as a stub in model_info.
C12_StubWhenModelAbsent ==
    /\ (op = "admet_predict" /\ ~ADMETModel /\ ~NoSmiles(req.smiles)) =>
           /\ ~ret.raised /\ ~Has(ret.val, "error")
           /\ ret.val.predictions = LIST(StubPredictions)
           /\ Len(ret.val.predictions) = 1 + 8
           /\ ret.val.model_info = StubModelInfo
    /\ (op = "admet" /\ ~ADMETModel /\ ReasoningPath.raised) =>
           /\ ~ret.raised
           /\ ret.val.predictions = LIST(StubPredictions)

\* C13: the process constructs the prediction model at most once, whatever
\* the sequence of requests.
C13_ModelBuiltOnce == constructed <= 1

---------------------------------------------------------------------------
(* Properties of analyze: the order of its steps and its fallback report *)

AnalyzeSteps ==
    <<"parser_agent.run", "conformer_agent.run", "admet_agent.run",
      "render_agent.run">>

\* C14: analyze runs the render step after the Parse, Conformer and ADMET
\* stages, and it runs all four whatever the outcome of each stage.
C14_RenderAfterAllStages == op = "analyze" => calls = AnalyzeSteps

\* The render agent raised, gave None or {}, or gave an object with an error.
RenderFailed ==
    \/ env.render.raised
    \/ ~TruthyObj(env.render.obj)
    \/ Truthy(GetN(env.render.obj.d, "error"))

\* The three stage agents each gave a result object.
StagesAnswered == \A stage \in Stages : ~env[stage].raised /\ ~env[stage].obj.none

\* C15: when the render step of analyze fails, analyze answers with the report
\* it builds itself from the three stage results, whose analysis_status marks
\* each stage success or failed as its result says; it does not answer with an
\* error.
C15_FallbackReport ==
    (op = "analyze" /\ StagesAnswered /\ RenderFailed) =>
        /\ ~ret.raised
        /\ "analysis_status" \in DOMAIN ret.val
        /\ \A stage \in Stages :
               ret.val.analysis_status[stage] =
                   IF StageFailed(env[stage]) THEN S("failed") ELSE S("success")

\* Each agent relayed the result of its tool for the request's SMILES.
DeterministicCollaborators ==
    /\ env.parser = ParserAnswers(req.smiles)[2]
    /\ env.conformer = ConformerAnswers(req.smiles, S("UFF"), DefaultEnv)[2]
    /\ env.admet = AdmetAnswers(req.smiles, ADMETModel, DefaultEnv)[2]
    /\ env.render = RenderAnswers(env.parser.obj, env.conformer.obj,
                                  env.admet.obj, now)[2]

\* The response analyze gives for the same SMILES when it is called at time t.
AnalyzeAgain(t) ==
    analyze(req.smiles, ParserAnswers(req.smiles)[2],
            ConformerAnswers(req.smiles, S("UFF"), DefaultEnv)[2],
            AdmetAnswers(req.smiles, ADMETModel, DefaultEnv)[2],
            RenderAnswers(ParserAnswers(req.smiles)[2].obj,
                          ConformerAnswers(req.smiles, S("UFF"), DefaultEnv)[2].obj,
                          AdmetAnswers(req.smiles, ADMETModel, DefaultEnv)[2].obj,
                          t)[2]).ret

\* C16: with agents that relay their tools' results, the report analyze gives
\* for a SMILES and the report it gives for the same SMILES at any other time
\* have the same keys and differ at most in analysis_id and timestamp: the
\* three component sections are identical.
C16_AnalyzeIdempotent ==
    (op = "analyze" /\ DeterministicCollaborators) =>
        \A t \in 0..MaxClock :
            /\ ~ret.raised /\ ~AnalyzeAgain(t).raised
            /\ DOMAIN AnalyzeAgain(t).val = DOMAIN ret.val
            /\ \A k \in DOMAIN ret.val \ {"analysis_id", "timestamp"} :
                   AnalyzeAgain(t).val[k] = ret.val[k]

\* A report for CCO made at time 0: the same request at the end of the clock
\* gives another timestamp and the same molecular section.
C16_Witness ==
    /\ op = "analyze" /\ DeterministicCollaborators
    /\ req.smiles = S("CCO") /\ now = 0
    /\ ret.val.molecular_properties.status = S("success")
    /\ AnalyzeAgain(MaxClock).val.timestamp # ret.val.timestamp
    /\ AnalyzeAgain(MaxClock).val.molecular_properties = ret.val.molecular_properties

Count(log, x) == Cardinality({i \in 1..Len(log) : log[i] = x})

\* C17: while it handles one request, a handler invokes no agent and no back
\* end more than once.
C17_AtMostOnce ==
    op \in Routes \cup {"analyze", "render_analysis"} =>
        \A x \in Range(calls) : Count(calls, x) = 1

\* admet: the agent failed, then the direct path failed, and neither was tried
\* again.
C17_Witness ==
    /\ op = "admet" /\ ret.raised
    /\ calls = <<"admet_agent.run", "ADMETClient.predict", "ADMETModel()",
                 "model.predict">>

---------------------------------------------------------------------------
(* Properties of a successful conformer result and of the error key *)

\* The tool or section result says status success.
SaysSuccess(d) == Get(d, "status", <<>>) = S("success")

\* C18: a conformer result that says success has a non-empty structure block
\* and a true coordinates flag, as rdkit_conformer returns it and as the
\* structure_3d section of a report shows it.
C18_SuccessHasCoordinates ==
    /\ (op = "rdkit_conformer" /\ ~ret.raised /\ SaysSuccess(ret.val)) =>
           /\ Truthy(ret.val.pdb_block)
           /\ ret.val.has_3d_coords = BOOL(TRUE)
    /\ (Rendered /\ SaysSuccess(ret.val.structure_3d)) =>
           /\ Truthy(ret.val.structure_3d.pdb_block)
           /\ ret.val.structure_3d.has_coordinates = BOOL(TRUE)

\* The object is a dict with an error key, whatever the key's value.
HasErrorKey(x) == ~x.none /\ Has(x.d, "error")

\* What the handler's own agent gave.
AgentAnswer ==
    CASE op = "parse" -> env.parser
      [] op = "conformer" -> env.conformer
      [] op = "admet" -> env.admet

\* analyze answered with the report it builds itself.
FallbackReported == ~ret.raised /\ "analysis_status" \in DOMAIN ret.val

\* C19: an object with an error key counts as a failed attempt, whatever the
\* key's value and the other fields: parse, conformer and admet go to their
\* direct path, render_analysis answers with an error, render_payload marks
\* the section failed, and analyze does not return such a render result and
\* marks such a stage failed in the report it builds.
C19_ErrorKeyMeansFailed ==
    /\ (Attempted /\ ~AgentAnswer.raised /\ HasErrorKey(AgentAnswer.obj)) =>
           Len(calls) >= 2 /\ calls[2] = DirectCall
    /\ (op = "render_analysis" /\ ~env.render.raised /\ HasErrorKey(env.render.obj)) =>
           ret.raised
    /\ Rendered =>
           \A c \in Components :
               Has(StageResultOf(c), "error") => ret.val[c].status = S("failed")
    /\ (op = "analyze" /\ ~ret.raised /\ ~env.render.raised
        /\ HasErrorKey(env.render.obj)) => FallbackReported
    /\ (op = "analyze" /\ FallbackReported) =>
           \A stage \in Stages :
               HasErrorKey(env[stage].obj) =>
                   ret.val.analysis_status[stage] = S("failed")

\* The force field the optimisation that wrote the block was run with.
AppliedForcefield(pdb_block) == S(pdb_block[2])

\* C20: a successful rdkit_conformer result names in forcefield_used the force
\* field the geometry was optimised with: UFF when MMFF was asked for and the
\* molecule has no MMFF parameters.
C20_ReportedForcefieldApplied ==
    (op = "rdkit_conformer" /\ ~ret.raised /\ SaysSuccess(ret.val)) =>
        /\ ret.val.forcefield_used = AppliedForcefield(ret.val.pdb_block)
        /\ (Upper(req.forcefield) = S("MMFF") /\ ~env.mmffParams) =>
               ret.val.forcefield_used = S("UFF")

---------------------------------------------------------------------------
(* Further properties of render_payload and of the fallback report *)

\* C21: a call of render_payload leaves the three stage results it was given
\* as they were passed, and changes nothing of the process (the clock, the
\* imported package, the loaded model, the count of constructed models).
C21_RenderPayloadFrame ==
    [][op' = "render_payload" =>
          /\ passed' = <<req'.molecular_data, req'.conformer_data, req'.admet_data>>
          /\ UNCHANGED <<now, ADMETModel, ADMETClient_model, constructed>>]_vars

\* render_payload rendered a failed conformer result, whose error key is still
\* in the object that was passed.
C21_Witness ==
    /\ Rendered
    /\ ret.val.structure_3d.status = S("failed")
    /\ Has(req.conformer_data.d, "error")
    /\ passed[2] = req.conformer_data

\* The stage result is a success result: status success and no error key.
SuccessResult(d) == SaysSuccess(d) /\ ~Has(d, "error")

\* C22: in every report a component section has status success exactly when
\* the stage result it was rendered from is a success result, and failed
\* otherwise; an ADMET success with an empty predictions list is not rendered
\* as failed.
C22_SectionStatusIsStageStatus ==
    Rendered =>
        \A c \in Components :
            /\ ret.val[c].status \in {S("success"), S("failed")}
            /\ ret.val[c].status = S("success") <=> SuccessResult(StageResultOf(c))

\* C23: in every report the top-level status is the summary's overall status.
C23_StatusIsOverallStatus ==
    Rendered => ret.val.status = ret.val.summary.overall_status

\* C24: the report analyze builds itself says that the render step failed.
C24_FallbackSaysRenderFailed ==
    (op = "analyze" /\ FallbackReported) =>
        ret.val.analysis_status.render = S("failed")

=============================================================================
